---- MODULE Spec2Model ----
(***************************************************************************)
(* Model of capture.py: a webcam motion detector that plays a sine tone    *)
(* whose pitch and volume follow the largest moving region of each frame.  *)
(*                                                                         *)
(* Real numbers (seconds, Hz, volume) are fixed-point integers: the real   *)
(* x is the integer x * ONE.  Pixel areas, sample rates and sample counts  *)
(* are plain integers.                                                     *)
(***************************************************************************)
EXTENDS Integers, Sequences, FiniteSets, TLC

VARIABLES pc, cap, out, frame, iterations,
          last_sound_time, requests, call, sink,
          args, result

vars == <<pc, cap, out, frame, iterations,
          last_sound_time, requests, call, sink, args, result>>

detector_vars == <<pc, cap, out, frame, iterations>>
sound_vars == <<last_sound_time, requests, call, sink>>
function_vars == <<args, result>>

\* ---------------------------------------------------------------- bounds
MaxRequests == 3
MaxPeriods == 2
MaxFrames == 2
MaxContours == 2
MaxDuration == 9

\* ------------------------------------------------------------ fixed point
ONE == 10000

Min(a, b) == IF a < b THEN a ELSE b
Max(a, b) == IF a > b THEN a ELSE b
Abs(a) == IF a < 0 THEN 0 - a ELSE a

\* ---------------------------------------------------------- configuration
CAMERA_INDEX == 0
MIN_CONTOUR_AREA == 500
SOUND_DURATION == ONE \div 10
SAMPLE_RATE == 44100
BASE_FREQUENCY == 440
FREQUENCY_MULTIPLIER == ONE \div 2
VOLUME_MULTIPLIER == ONE \div 2
SOUND_DELAY == ONE \div 20

\* ------------------------------------------------------------ audio: tone
\* round(duration * sample_rate), halves to the even neighbour.
BufferLengthRounded(duration, sample_rate) ==
    LET p == duration * sample_rate
        q == p \div ONE
        r == p % ONE
    IN  IF 2 * r < ONE THEN q
        ELSE IF 2 * r > ONE THEN q + 1
        ELSE IF q % 2 = 0 THEN q ELSE q + 1

\* int(duration * sample_rate): int() truncates toward zero.
BufferLength(duration, sample_rate) ==
    (duration * sample_rate) \div ONE

\* The buffer is described by its length, its frequency and its amplitude;
\* the sample values (amplitude_scaled * sin(..) cut to int16) are not
\* enumerated.
generate_sine_wave(frequency, duration, sample_rate, amplitude) ==
    [ frequency |-> frequency,
      amplitude |-> amplitude,
      amplitude_scaled |-> (amplitude * 32767) \div ONE,
      sample_rate |-> sample_rate,
      nsamples |-> BufferLength(duration, sample_rate) ]

\* ------------------------------------------------------ audio: play_sound
TooSoonInclusive(current_time, last) ==
    current_time - last <= SOUND_DELAY

TooSoonAbs(current_time, last) ==
    Abs(current_time - last) < SOUND_DELAY

\* current_time - last_sound_time < SOUND_DELAY
TooSoon(current_time, last) ==
    current_time - last < SOUND_DELAY

ClampFrequencyNoCeiling(frequency) ==
    Max(100 * ONE, frequency)

\* frequency = max(100, min(2000, frequency))
ClampFrequency(frequency) ==
    Max(100 * ONE, Min(2000 * ONE, frequency))

\* volume = max(0.0, min(1.0, volume))
ClampVolume(volume) ==
    Max(0, Min(ONE, volume))

\* The buffer play_sound synthesizes once the request is let through.
Tone(frequency, volume) ==
    generate_sine_wave(ClampFrequency(frequency), SOUND_DURATION, SAMPLE_RATE,
                       ClampVolume(volume))

NoCall == [frequency |-> 0, volume |-> 0, current_time |-> 0]
NoBuffer == [nsamples |-> 0]

play_sound_stamp_always(frequency, volume, current_time) ==
    /\ call' = [frequency |-> frequency, volume |-> volume,
                current_time |-> current_time]
    /\ last_sound_time' = current_time
    /\ IF TooSoon(current_time, last_sound_time)
       THEN /\ requests' = Append(requests, [at |-> current_time, played |-> FALSE])
            /\ UNCHANGED sink
       ELSE /\ sink' = [count |-> sink.count + 1,
                        last |-> Tone(frequency, volume)]
            /\ requests' = Append(requests, [at |-> current_time, played |-> TRUE])

\* One call of play_sound.  requests is the record of the calls made (when,
\* and whether the call reached sa.play_buffer); sink is what the audio
\* device was handed: how many buffers, and the last one.
play_sound(frequency, volume, current_time) ==
    /\ call' = [frequency |-> frequency, volume |-> volume,
                current_time |-> current_time]
    /\ IF TooSoon(current_time, last_sound_time)
       THEN /\ requests' = Append(requests, [at |-> current_time, played |-> FALSE])
            /\ UNCHANGED <<last_sound_time, sink>>
       ELSE /\ sink' = [count |-> sink.count + 1,
                        last |-> Tone(frequency, volume)]
            /\ last_sound_time' = current_time
            /\ requests' = Append(requests, [at |-> current_time, played |-> TRUE])

\* ------------------------------------------------------------------ clock
\* time.time() counts from 1970, so every reading is far above SOUND_DELAY;
\* Epoch stands for the smallest reading.  The clock is the wall clock: it
\* may repeat a value or step backwards.
Epoch == 2 * SOUND_DELAY

ClockReadings ==
    { Epoch + k * SOUND_DELAY + d : k \in 0..MaxPeriods, d \in {0 - 1, 0, 1} }
        \ { Epoch - 1 }

\* --------------------------------------------------------- initial values
NoFrame == [processed |-> FALSE]
NoArgs == [none |-> TRUE]
NoResult == [none |-> TRUE]

InitSound ==
    /\ last_sound_time = 0
    /\ requests = <<>>
    /\ call = NoCall
    /\ sink = [count |-> 0, last |-> NoBuffer]

InitDetector ==
    /\ pc = "start"
    /\ cap = [opened |-> FALSE, released |-> FALSE, reads |-> <<>>]
    /\ out = <<>>
    /\ frame = NoFrame
    /\ iterations = 0

InitFunction ==
    /\ args = NoArgs
    /\ result = NoResult

\* ------------------------------------------------- detector: contour loop
\* A contour as the loop sees it: cv2.contourArea, and the centroid
\* int(m10 / m00), int(m01 / m00) of cv2.moments, whose m00 is the area.
\* The frames offer a region under the minimum, one at the minimum, and two
\* regions of one larger area at different places.
CentroidA == <<10, 30>>
CentroidB == <<20, 40>>
Contour(area, centroid) ==
    [area |-> area, m00 |-> area, cx |-> centroid[1], cy |-> centroid[2]]
Contours == { Contour(MIN_CONTOUR_AREA - 1, CentroidA),
              Contour(MIN_CONTOUR_AREA, CentroidA),
              Contour(5000, CentroidA),
              Contour(5000, CentroidB) }
ContourLists == UNION { [1..n -> Contours] : n \in 0..MaxContours }

NoMotion == [motion_detected |-> FALSE, largest_area |-> 0,
             center_x |-> 0, center_y |-> 0, contour_count |-> 0]

ContourStepFirstWins(acc, contour) ==
    IF contour.area < MIN_CONTOUR_AREA THEN acc
    ELSE LET grows == contour.area > acc.largest_area
             keep == contour.m00 /= 0 /\ grows
         IN  [motion_detected |-> TRUE,
              contour_count |-> acc.contour_count + 1,
              largest_area |-> IF grows THEN contour.area ELSE acc.largest_area,
              center_x |-> IF keep THEN contour.cx ELSE acc.center_x,
              center_y |-> IF keep THEN contour.cy ELSE acc.center_y]

ContourStepNoMinimum(acc, contour) ==
    LET largest == IF contour.area > acc.largest_area
                   THEN contour.area ELSE acc.largest_area
        keep == contour.m00 /= 0 /\ contour.area = largest
    IN  [motion_detected |-> TRUE,
         contour_count |-> acc.contour_count + 1,
         largest_area |-> largest,
         center_x |-> IF keep THEN contour.cx ELSE acc.center_x,
         center_y |-> IF keep THEN contour.cy ELSE acc.center_y]

\* The body of `for contour in contours`.
ContourStep(acc, contour) ==
    IF contour.area < MIN_CONTOUR_AREA THEN acc
    ELSE LET largest == IF contour.area > acc.largest_area
                        THEN contour.area ELSE acc.largest_area
             keep == contour.m00 /= 0 /\ contour.area = largest
         IN  [motion_detected |-> TRUE,
              contour_count |-> acc.contour_count + 1,
              largest_area |-> largest,
              center_x |-> IF keep THEN contour.cx ELSE acc.center_x,
              center_y |-> IF keep THEN contour.cy ELSE acc.center_y]

RECURSIVE ContourLoop(_, _)
ContourLoop(acc, contours) ==
    IF contours = <<>> THEN acc
    ELSE ContourLoop(ContourStep(acc, Head(contours)), Tail(contours))

\* ------------------------------------------- detector: area to tone mapping
ModulatedFrequencyFalling(largest_area) ==
    BASE_FREQUENCY * ONE - (largest_area * FREQUENCY_MULTIPLIER) \div 100

\* BASE_FREQUENCY + (largest_area * FREQUENCY_MULTIPLIER / 100)
ModulatedFrequency(largest_area) ==
    BASE_FREQUENCY * ONE + (largest_area * FREQUENCY_MULTIPLIER) \div 100

\* VOLUME_MULTIPLIER + (min(largest_area, 5000) / 5000.0) * (1.0 - VOLUME_MULTIPLIER),
\* then min(1.0, ..)
ModulatedVolume(largest_area) ==
    Min(ONE, VOLUME_MULTIPLIER
             + (((Min(largest_area, 5000) * ONE) \div 5000) * (ONE - VOLUME_MULTIPLIER))
                   \div ONE)

\* ------------------------------------------------------ detector: the run
Keys == { "q", "none" }

\* What time.time() reads in the passes of the loop: the same instant, just
\* inside the rate limiter's window, and at its edge.
FrameTimes == { Epoch, Epoch + SOUND_DELAY - 1, Epoch + SOUND_DELAY }

MsgNoCamera == "Error: Could not open video stream from camera index 0."
MsgCheckCamera == "Please check if the camera is connected and not in use by another application."
MsgOpened == "Camera opened successfully. Press 'q' to quit."
MsgNoFirstFrame == "Error: Could not read first frame. Exiting."
MsgEndOfStream == "Reached end of stream or camera disconnected. Exiting."
MsgClosed == "Application closed."

\* cap = cv2.VideoCapture(CAMERA_INDEX); if not cap.isOpened(): .. return
OpenCamera ==
    /\ pc = "start"
    /\ \E isOpened \in BOOLEAN :
          /\ cap' = [cap EXCEPT !.opened = isOpened]
          /\ IF ~isOpened
             THEN /\ out' = out \o <<MsgNoCamera, MsgCheckCamera>>
                  /\ pc' = "done"
             ELSE /\ out' = Append(out, MsgOpened)
                  /\ pc' = "first"
    /\ UNCHANGED <<frame, iterations, sound_vars, function_vars>>

ReadFirstFrameFallsThrough ==
    /\ pc = "first"
    /\ \E ret \in BOOLEAN :
          /\ cap' = [cap EXCEPT !.reads = Append(@, ret)]
          /\ IF ~ret
             THEN /\ out' = Append(out, MsgNoFirstFrame)
                  /\ pc' = "loop"
             ELSE /\ out' = out
                  /\ pc' = "loop"
    /\ UNCHANGED <<frame, iterations, sound_vars, function_vars>>

\* ret, frame1 = cap.read(); if not ret: .. return
ReadFirstFrame ==
    /\ pc = "first"
    /\ \E ret \in BOOLEAN :
          /\ cap' = [cap EXCEPT !.reads = Append(@, ret)]
          /\ IF ~ret
             THEN /\ out' = Append(out, MsgNoFirstFrame)
                  /\ pc' = "done"
             ELSE /\ out' = out
                  /\ pc' = "loop"
    /\ UNCHANGED <<frame, iterations, sound_vars, function_vars>>

\* One pass of `while True`: read a frame, find the motion in it, request a
\* tone when there is some, then look at the keyboard.  The stream is cut
\* after MaxFrames frames.
LoopIteration ==
    /\ pc = "loop"
    /\ iterations' = iterations + 1
    /\ \E ret \in BOOLEAN :
          /\ ret => iterations < MaxFrames
          /\ cap' = [cap EXCEPT !.reads = Append(@, ret)]
          /\ IF ~ret
             THEN /\ out' = Append(out, MsgEndOfStream)
                  /\ pc' = "release"
                  /\ UNCHANGED <<frame, sound_vars>>
             ELSE \E contours \in ContourLists, current_time \in FrameTimes,
                     key \in Keys :
                    LET found == ContourLoop(NoMotion, contours) IN
                    /\ IF found.motion_detected
                       THEN play_sound(ModulatedFrequency(found.largest_area),
                                       ModulatedVolume(found.largest_area),
                                       current_time)
                       ELSE UNCHANGED sound_vars
                    /\ frame' = [processed |-> TRUE,
                                 contours |-> contours,
                                 motion_detected |-> found.motion_detected,
                                 largest_area |-> found.largest_area,
                                 center_x |-> found.center_x,
                                 center_y |-> found.center_y,
                                 contour_count |-> found.contour_count,
                                 issued |-> Len(requests') - Len(requests)]
                    /\ out' = out
                    /\ pc' = IF key = "q" THEN "release" ELSE "loop"
    /\ UNCHANGED function_vars

\* cap.release(); cv2.destroyAllWindows(); print("Application closed.")
Release ==
    /\ pc = "release"
    /\ cap' = [cap EXCEPT !.released = TRUE]
    /\ out' = Append(out, MsgClosed)
    /\ pc' = "done"
    /\ UNCHANGED <<frame, iterations, sound_vars, function_vars>>

Init == InitSound /\ InitDetector /\ InitFunction
Next == OpenCamera \/ ReadFirstFrame \/ LoopIteration \/ Release
Spec == Init /\ [][Next]_vars

\* ------------------------------------------- specification: play_sound
Frequencies == { 50 * ONE, BASE_FREQUENCY * ONE, 2500 * ONE }
Volumes == { 0 - (ONE \div 2), ONE \div 2, ONE + ONE \div 2 }

PlaySoundCall ==
    /\ Len(requests) < MaxRequests
    /\ \E frequency \in Frequencies, volume \in Volumes, current_time \in ClockReadings :
          play_sound(frequency, volume, current_time)
    /\ UNCHANGED <<detector_vars, function_vars>>

InitPlay == InitSound /\ InitDetector /\ InitFunction
NextPlay == PlaySoundCall
SpecPlay == InitPlay /\ [][NextPlay]_vars

\* ----------------------------------- specification: generate_sine_wave
\* Durations are the multiples of 0.05 s up to MaxDuration of them.
Durations == { k * (ONE \div 20) : k \in 0..MaxDuration }
SampleRates == { 1, 5, 10, 25, 8000, SAMPLE_RATE }

InitSine ==
    /\ InitSound /\ InitDetector
    /\ args \in [frequency : {BASE_FREQUENCY * ONE}, duration : Durations,
                 sample_rate : SampleRates, amplitude : {ONE \div 2}]
    /\ result = NoResult

CallGenerateSineWave ==
    /\ result = NoResult
    /\ result' = generate_sine_wave(args.frequency, args.duration,
                                    args.sample_rate, args.amplitude)
    /\ UNCHANGED <<args, detector_vars, sound_vars>>

NextSine == CallGenerateSineWave
SpecSine == InitSine /\ [][NextSine]_vars

\* ------------------------------ specification: area to synthesized tone
\* Two areas of moving regions, each at least MIN_CONTOUR_AREA, and the tone
\* the detector synthesizes for each (lines 142-151, then play_sound).
MotionAreas == { MIN_CONTOUR_AREA, MIN_CONTOUR_AREA + 1, 1000, 5000, 50000,
                 311999, 312000, 312001, 320000, 400000 }

InitMap ==
    /\ InitSound /\ InitDetector
    /\ args \in [a1 : MotionAreas, a2 : MotionAreas]
    /\ result = NoResult

MapAreas ==
    /\ result = NoResult
    /\ result' = [t1 |-> Tone(ModulatedFrequency(args.a1), ModulatedVolume(args.a1)),
                  t2 |-> Tone(ModulatedFrequency(args.a2), ModulatedVolume(args.a2))]
    /\ UNCHANGED <<args, detector_vars, sound_vars>>

NextMap == MapAreas
SpecMap == InitMap /\ [][NextMap]_vars

\* ------------------------------------------------ claims about play_sound
Played(i) == requests[i].played
Later(i, j) == requests[j].at - requests[i].at
Apart(i, j) == Abs(Later(i, j))
Pairs == { p \in (1..Len(requests)) \X (1..Len(requests)) : p[1] < p[2] }

\* C1 as stated: of any two play requests issued less than SOUND_DELAY apart
\* exactly one is played, and any two requests issued more than SOUND_DELAY
\* apart are both played.
C1_AnyTwoRequests ==
    \A p \in Pairs :
        /\ Later(p[1], p[2]) < SOUND_DELAY => (Played(p[1]) /= Played(p[2]))
        /\ Later(p[1], p[2]) > SOUND_DELAY => (Played(p[1]) /\ Played(p[2]))

\* C1 amended: of any two play requests issued less than SOUND_DELAY apart at
\* most one is played (exactly one when the earlier of the two is played); a
\* request issued SOUND_DELAY or more after a played request, with no play
\* in between, is played too.
C1_RateLimit ==
    \A p \in Pairs :
        /\ Apart(p[1], p[2]) < SOUND_DELAY => ~(Played(p[1]) /\ Played(p[2]))
        /\ ( /\ Played(p[1])
             /\ Later(p[1], p[2]) >= SOUND_DELAY
             /\ \A k \in (p[1] + 1)..(p[2] - 1) : ~Played(k) )
           => Played(p[2])

C1_Witness ==
    /\ Len(requests) = 3
    /\ Played(1) /\ ~Played(2) /\ Played(3)
    /\ Apart(1, 2) < SOUND_DELAY
    /\ requests[3].at - requests[1].at = SOUND_DELAY

\* C2: play_sound changes last_sound_time only when it plays: a dropped
\* request leaves last_sound_time and the audio sink as they were, a played
\* request hands one buffer to the sink and sets last_sound_time to the time
\* read at the start of the request.
C2_StampOnlyOnPlay ==
    [][ requests' /= requests =>
          IF sink'.count = sink.count
          THEN /\ last_sound_time' = last_sound_time
               /\ sink' = sink
               /\ call'.current_time - last_sound_time < SOUND_DELAY
          ELSE /\ sink'.count = sink.count + 1
               /\ last_sound_time' = call'.current_time
               /\ call'.current_time - last_sound_time >= SOUND_DELAY ]_vars

C2_Witness ==
    /\ Len(requests) = 2
    /\ Played(1) /\ ~Played(2)
    /\ sink.count = 1
    /\ last_sound_time = requests[1].at
    /\ requests[2].at > requests[1].at

\* C3: a tone is synthesized with clamped parameters: the frequency is the
\* requested one moved to the nearest bound of [100, 2000] Hz, the amplitude
\* the requested volume moved to the nearest bound of [0, 1]; nothing outside
\* these ranges reaches the audio sink.
C3_ClampedTone ==
    /\ sink.count > 0 =>
          /\ sink.last.frequency >= 100 * ONE /\ sink.last.frequency <= 2000 * ONE
          /\ sink.last.amplitude >= 0 /\ sink.last.amplitude <= ONE
    /\ (Len(requests) > 0 /\ Played(Len(requests))) =>
          /\ sink.last.frequency =
                IF call.frequency < 100 * ONE THEN 100 * ONE
                ELSE IF call.frequency > 2000 * ONE THEN 2000 * ONE
                ELSE call.frequency
          /\ sink.last.amplitude =
                IF call.volume < 0 THEN 0
                ELSE IF call.volume > ONE THEN ONE
                ELSE call.volume

C3_Witness ==
    /\ Len(requests) = 2
    /\ Played(2)
    /\ call.frequency > 2000 * ONE
    /\ call.volume < 0
    /\ sink.last.frequency = 2000 * ONE
    /\ sink.last.amplitude = 0
    /\ sink.count = 2

\* C9: whatever the clock reads, also when it steps backwards, the recorded
\* times of two consecutive successful plays are at least SOUND_DELAY apart,
\* and last_sound_time never decreases.
PlayedAt == SelectSeq(requests, LAMBDA r : r.played)

C9_PlaysSpaced ==
    /\ [](\A i \in 1..(Len(PlayedAt) - 1) :
             PlayedAt[i + 1].at - PlayedAt[i].at >= SOUND_DELAY)
    /\ [][last_sound_time' >= last_sound_time]_vars

C9_Witness ==
    /\ Len(requests) = 3
    /\ Played(1) /\ ~Played(2) /\ Played(3)
    /\ requests[2].at < requests[1].at - SOUND_DELAY
    /\ last_sound_time = requests[3].at

\* ---------------------------------------- claims about generate_sine_wave
\* C4 as stated: the buffer has exactly round(duration * sample_rate)
\* samples.
C4_LengthIsRounded ==
    result /= NoResult =>
        LET p == args.duration * args.sample_rate
            q == p \div ONE
            r == p % ONE
        IN  result.nsamples =
               IF 2 * r < ONE THEN q
               ELSE IF 2 * r > ONE THEN q + 1
               ELSE IF q % 2 = 0 THEN q ELSE q + 1

\* C4 amended: the buffer has exactly floor(duration * sample_rate) samples:
\* the largest whole number of samples that fits in the duration.
C4_LengthIsTruncated ==
    result /= NoResult =>
        /\ result.nsamples * ONE <= args.duration * args.sample_rate
        /\ (result.nsamples + 1) * ONE > args.duration * args.sample_rate

C4_Witness ==
    /\ result /= NoResult
    /\ args.duration = 3 * (ONE \div 20)
    /\ args.sample_rate = 5
    /\ result.nsamples = 0

\* ------------------------------------------ claims about the area mapping
\* C5: the synthesized frequency does not decrease when the area grows,
\* never exceeds 2000 Hz, and once an area reaches 2000 Hz every larger area
\* stays at exactly 2000 Hz.
C5_FrequencyMonotone ==
    result /= NoResult =>
        /\ result.t1.frequency <= 2000 * ONE
        /\ result.t2.frequency <= 2000 * ONE
        /\ args.a1 <= args.a2 =>
              /\ result.t1.frequency <= result.t2.frequency
              /\ result.t1.frequency = 2000 * ONE => result.t2.frequency = 2000 * ONE

C5_Witness ==
    /\ result /= NoResult
    /\ args.a1 = 312000 /\ args.a2 = 400000
    /\ result.t1.frequency = 2000 * ONE
    /\ result.t2.frequency = 2000 * ONE

\* ------------------------------------------------ claims about the detector
Surviving == { i \in 1..Len(frame.contours) :
                  frame.contours[i].area >= MIN_CONTOUR_AREA }
MaximalArea == CHOOSE a \in { frame.contours[i].area : i \in Surviving } :
                  \A i \in Surviving : frame.contours[i].area <= a
Maximal == { i \in Surviving : frame.contours[i].area = MaximalArea }
FirstOf(S) == CHOOSE i \in S : \A j \in S : i <= j
LastOf(S) == CHOOSE i \in S : \A j \in S : j <= i

\* C6 as stated: when several surviving regions share the maximal area, the
\* centroid kept after the contour loop is that of the first of them.
C6_FirstMaximalWins ==
    (frame.processed /\ Surviving /= {}) =>
        /\ frame.center_x = frame.contours[FirstOf(Maximal)].cx
        /\ frame.center_y = frame.contours[FirstOf(Maximal)].cy

\* C6 amended: when several surviving regions share the maximal area, the
\* centroid kept after the contour loop is that of the last of them.
C6_LastMaximalWins ==
    (frame.processed /\ Surviving /= {}) =>
        /\ frame.center_x = frame.contours[LastOf(Maximal)].cx
        /\ frame.center_y = frame.contours[LastOf(Maximal)].cy

C6_Witness ==
    /\ frame.processed
    /\ Cardinality(Maximal) = 2
    /\ frame.contours[1].cx /= frame.contours[2].cx
    /\ frame.center_x = frame.contours[2].cx

FirstFrameUnreadable == Len(cap.reads) >= 1 /\ ~cap.reads[1]
CameraNotOpened == pc /= "start" /\ ~cap.opened

\* C7: when the camera cannot be opened or the first frame cannot be read,
\* the run reports the failure and returns without any pass of the capture
\* loop, and no play request is issued.
C7_EarlyExit ==
    /\ CameraNotOpened =>
          /\ pc = "done" /\ iterations = 0 /\ requests = <<>>
          /\ out = <<MsgNoCamera, MsgCheckCamera>>
    /\ FirstFrameUnreadable =>
          /\ pc = "done" /\ iterations = 0 /\ requests = <<>>
          /\ out = <<MsgOpened, MsgNoFirstFrame>>

C7_Witness ==
    /\ pc = "done"
    /\ cap.opened
    /\ FirstFrameUnreadable

\* C8: in a pass of the loop a play request is issued exactly when some
\* contour of the frame has area >= MIN_CONTOUR_AREA; at most one request is
\* issued per pass; the area that sets frequency and volume is the largest
\* among the contours that meet the minimum, smaller contours having no
\* influence.
C8_RequestIffMotion ==
    frame.processed =>
        /\ frame.issued \in {0, 1}
        /\ frame.issued = 1 <=> Surviving /= {}
        /\ frame.motion_detected <=> Surviving /= {}
        /\ frame.contour_count = Cardinality(Surviving)
        /\ Surviving /= {} =>
              /\ frame.largest_area = MaximalArea
              /\ call.frequency = BASE_FREQUENCY * ONE + MaximalArea * 50
              /\ call.volume = (ONE \div 2) + Min(MaximalArea, 5000)

C8_Witness ==
    /\ frame.processed
    /\ Len(frame.contours) = 2
    /\ frame.contours[1].area = 5000
    /\ frame.contours[2].area = MIN_CONTOUR_AREA - 1
    /\ frame.issued = 1
    /\ frame.largest_area = 5000

\* C10 as stated: on every return after the camera was opened, the capture
\* device has been released.
C10_ReleasedOnReturn ==
    (pc = "done" /\ cap.opened) => cap.released

====
